---- MODULE Spec2Model ----
(***************************************************************************)
(* RollDB: a rollback-aware write-ahead log over a key-value store, with   *)
(* a block-body table, a chain index (slot -> hash) and a compactor.       *)
(* Modelled from src/src/rolldb/mod.rs.  The `wal` submodule (WalKV) is    *)
(* not part of the source tree at hand: its operations are modelled from   *)
(* the written specification (sections 4.B, 4.D, 4.E).                     *)
(*                                                                         *)
(* The mempool monitor (src/src/submit/mempool.rs) and the follow-tip      *)
(* stream of the gRPC sync service (src/src/serve/grpc/sync.rs) are two    *)
(* more components, each with a specification of its own: MempoolSpec and  *)
(* FollowSpec.  The WAL store, the WAL stream and the ledger behind the    *)
(* sync service are not part of the source tree either and are modelled    *)
(* from sections 4.E and 4.G.  DumpSpec is the specification of the        *)
(* paged history dump (dump_history) of the same service.                  *)
(***************************************************************************)
EXTENDS Integers, Sequences, FiniteSets, TLC

\* ---------------------------------------------------------------- bounds
MaxSlot == 2      \* block slots range over 0..MaxSlot
NForks == 1       \* distinct blocks (hashes) that exist for one slot
MaxSeq == 7       \* no append once the sequence cursor reached MaxSeq
MaxK == 1         \* compact is called with k in 0..MaxK
MaxTipSlot == 2   \* the mempool monitor's events carry slots in 0..MaxTipSlot
NTxs == 2         \* distinct transactions (hashes)
MaxBatch == 2     \* transactions in one AddTxs payload
MaxPrune == 1     \* Stage.prune_height ranges over 0..MaxPrune
MaxFollowSeq == 4 \* WAL entries appended while a stream follows the tip
MaxIntersect == 1 \* points in one FollowTipRequest.intersect
MaxDumpSeq == 4   \* WAL entries of a log that dump_history pages through
MaxItems == 1     \* DumpHistoryRequest.max_items ranges over 0..MaxItems
MaxEbb == 1       \* blocks whose body is an epoch boundary block

Slots == 0..MaxSlot
Forks == 0..(NForks - 1)
Ks == 0..MaxK

\* --------------------------------------------------------------- domain
\* Option<T>: None, or Some(x)
None == << >>
Some(x) == <<x>>
unwrap(o) == o[1]

\* type BlockHash: a block's hash identifies the block, hence its slot.
BlockHash == 0..((MaxSlot + 1) * NForks - 1)

\* type BlockSlot (u64): the slot of the block with hash h.
BlockSlot(h) == h \div NForks

\* type BlockBody: the bytes of the block with hash h (opaque).
BlockBody(h) == [bytes |-> h]

\* enum Error
Error == {"IO", "Serde"}

\* wal::WalAction
WalAction == {"Apply", "Undo", "Mark"}

\* wal::Value: (action, slot, hash)
Value(a, s, h) == [action |-> a, slot |-> s, hash |-> h]

VARIABLES
    wal,              \* column family `wal`: seq -> Value
    wal_seq,          \* RollDB.wal_seq, the in-memory sequence cursor
    chain,            \* column family ChainKV: slot -> hash
    blocks,           \* column family BlockKV: hash -> body
    res               \* the result of the last public operation

VARIABLES
    tip_slot,         \* Monitor.tip_slot
    txs,              \* Monitor.txs: hash -> Option<InclusionPoint>
    prune_height,     \* Stage.prune_height
    propagated,       \* the last payload sent to downstream_propagator
    worker,           \* "Ok", or "panic" once execute panicked
    event             \* the kind of the last MempoolEvent executed

VARIABLES
    ledger_cursor,    \* LedgerStore::cursor(): Option<ChainPoint>
    stream_pc,        \* where the follow_tip call and its stream stand
    from_seq,         \* from_seq of follow_tip
    stream_seq,       \* the WalStream's position: the next seq to yield
    point,            \* the point of the Reset item
    by_intersect,     \* whether the request named an intersect
    items             \* the items the stream yielded, each with the seq of
                      \* the WAL entry it was made from

VARIABLES
    epoch_boundary,   \* the bodies probe::block_era takes for epoch boundary blocks
    response,         \* the outcome of the last dump_history call
    paging,           \* where the client's paging of the history stands
    dumped            \* the block items of the pages of the current paging

rolldb_vars == <<wal, wal_seq, chain, blocks, res>>
mempool_vars == <<tip_slot, txs, prune_height, propagated, worker, event>>
follow_vars == <<ledger_cursor, stream_pc, from_seq, stream_seq, point, by_intersect, items>>
dump_vars == <<epoch_boundary, response, paging, dumped>>
vars == <<rolldb_vars, mempool_vars, follow_vars, dump_vars>>

\* ------------------------------------------------------------- helpers
Max(S) == CHOOSE x \in S : \A y \in S : y <= x
Min(S) == CHOOSE x \in S : \A y \in S : x <= y

\* keys of S in ascending order (big-endian keys iterate numerically)
Ascending(S) ==
    IF S = {} THEN <<>>
    ELSE SelectSeq([i \in 1..(Max(S) - Min(S) + 1) |-> Min(S) + i - 1],
                   LAMBDA x : x \in S)

\* f without key x
Without(f, x) == [y \in (DOMAIN f) \ {x} |-> f[y]]

\* f with key x set to v (insert or overwrite)
Upsert(f, x, v) == [y \in (DOMAIN f) \cup {x} |-> IF y = x THEN v ELSE f[y]]

\* ------------------------------------------------- wal::WalKV (spec 4.B)
\* WalKV::last_key: the greatest key of the wal family, if any
last_key(w) == IF DOMAIN w = {} THEN None ELSE Some(Max(DOMAIN w))

\* WalKV::stage_append: one entry under key last_seq + 1
stage_append(w, last_seq, v) == Upsert(w, last_seq + 1, v)

\* WalKV::stage_roll_forward: Apply(slot, hash) at the next seq
stage_roll_forward(w, last_seq, slot, hash) ==
    [wal |-> stage_append(w, last_seq, Value("Apply", slot, hash)),
     seq |-> last_seq + 1]

\* WalKV::find_tip: the point named by the entry of greatest seq
WalKV_find_tip(w) ==
    IF DOMAIN w = {} THEN None
    ELSE Some(<<w[Max(DOMAIN w)].slot, w[Max(DOMAIN w)].hash>>)

\* the entries of w naming slot `until`
PointKeys(w, until) == {s \in DOMAIN w : w[s].slot = until}

\* Undo entries for the Apply entries at keys `ks` (descending keys given)
RECURSIVE UndoBatch(_, _)
UndoBatch(w, ks) ==
    IF ks = <<>> THEN <<>>
    ELSE LET v == w[Head(ks)]
         IN  (IF v.action = "Apply" THEN <<Value("Undo", v.slot, v.hash)>> ELSE <<>>)
             \o UndoBatch(w, Tail(ks))

Reverse(s) == [i \in 1..Len(s) |-> s[Len(s) + 1 - i]]

RECURSIVE AppendAll(_, _, _)
AppendAll(w, last_seq, vs) ==
    IF vs = <<>> THEN w
    ELSE AppendAll(stage_append(w, last_seq, Head(vs)), last_seq + 1, Tail(vs))

\* WalKV::stage_roll_back: walk the WAL backward from the tail down to the
\* target, one Undo per Apply met, then one Mark(target); a target that no
\* WAL entry names is a failure and stages nothing.
stage_roll_back(w, last_seq, until) ==
    IF PointKeys(w, until) = {}
    THEN [ok |-> FALSE, wal |-> w, seq |-> last_seq]
    ELSE LET at == Max(PointKeys(w, until))
             after == Reverse(Ascending({s \in DOMAIN w : s > at}))
             batch == UndoBatch(w, after) \o <<Value("Mark", until, w[at].hash)>>
         IN  [ok |-> TRUE,
              wal |-> AppendAll(w, last_seq, batch),
              seq |-> last_seq + Len(batch)]

\* ------------------------------------------------------ RollDB (mod.rs)
\* RollDB::get_block
get_block(hash) == IF hash \in DOMAIN blocks THEN Some(blocks[hash]) ELSE None

\* RollDB::find_tip
find_tip == WalKV_find_tip(wal)

\* RollDB::crawl_wal: the WAL values in key order
crawl_wal ==
    LET keys == Ascending(DOMAIN wal)
    IN  [i \in 1..Len(keys) |-> wal[keys[i]]]

\* RollDB::crawl_chain: (slot, hash) in ascending slot order
crawl_chain ==
    LET keys == Ascending(DOMAIN chain)
    IN  [i \in 1..Len(keys) |-> <<keys[i], chain[keys[i]]>>]

\* `tip - value.slot()` on u64: the difference, or, when value.slot() > tip,
\* the wrapped value 2^64 - (slot - tip) of a build without overflow checks.
slot_delta(tip, slot) ==
    IF slot <= tip THEN [wrapped |-> FALSE, val |-> tip - slot]
    ELSE [wrapped |-> TRUE, val |-> slot - tip]

\* variant: the horizon test written with `<`
within_horizon_strict(delta, k_param) == ~delta.wrapped /\ delta.val < k_param

\* variant: the horizon test written with `>=`
within_horizon_ge(delta, k_param) == ~delta.wrapped /\ delta.val >= k_param

\* `slot_delta <= k_param`; a wrapped delta is above every k below 2^64 - MaxSlot
within_horizon(delta, k_param) == ~delta.wrapped /\ delta.val <= k_param

\* variant: the chain write is not in the batch that deletes the WAL entry
compact_entry_wal_only(w, c, wal_key) == [wal |-> Without(w, wal_key), chain |-> c]

\* one iteration's batch of RollDB::compact for the entry at wal_key
compact_entry(w, c, wal_key) ==
    LET value == w[wal_key]
    IN  IF value.action \in {"Apply", "Mark"}
        THEN [wal |-> Without(w, wal_key),
              chain |-> Upsert(c, value.slot, value.hash)]
        ELSE [wal |-> Without(w, wal_key),
              chain |-> Without(c, value.slot)]

RECURSIVE compact_loop(_, _, _, _, _, _)

\* variant: `if let` in place of `while let`, one entry per call
compact_loop_once(w, c, keys, tip, k_param, checks) ==
    IF keys = <<>> THEN [wal |-> w, chain |-> c, res |-> "Ok"]
    ELSE LET value == w[Head(keys)]
             delta == slot_delta(tip, value.slot)
         IN  IF delta.wrapped /\ checks
             THEN [wal |-> w, chain |-> c, res |-> "panic"]
             ELSE IF within_horizon(delta, k_param)
             THEN [wal |-> w, chain |-> c, res |-> "Ok"]
             ELSE LET b == compact_entry(w, c, Head(keys))
                  IN  [wal |-> b.wal, chain |-> b.chain, res |-> "Ok"]

\* the loop of RollDB::compact over the keys still to visit, oldest first
compact_loop(w, c, keys, tip, k_param, checks) ==
    IF keys = <<>> THEN [wal |-> w, chain |-> c, res |-> "Ok"]
    ELSE LET value == w[Head(keys)]
             delta == slot_delta(tip, value.slot)
         IN  IF delta.wrapped /\ checks
             THEN [wal |-> w, chain |-> c, res |-> "panic"]
             ELSE IF within_horizon(delta, k_param)
             THEN [wal |-> w, chain |-> c, res |-> "Ok"]
             ELSE LET b == compact_entry(w, c, Head(keys))
                  IN  compact_loop(b.wal, b.chain, Tail(keys), tip, k_param, checks)

\* RollDB::compact as a function of the database
compact_db(w, c, k_param, checks) ==
    LET tip == IF WalKV_find_tip(w) = None THEN 0 ELSE unwrap(WalKV_find_tip(w))[1]
    IN  compact_loop(w, c, Ascending(DOMAIN w), tip, k_param, checks)

\* RollDB::compact of which the loop ends after n entries at most: the
\* db.write of the next batch fails, or the process dies before it
compact_db_stopped(w, c, k_param, checks, n) ==
    LET tip == IF WalKV_find_tip(w) = None THEN 0 ELSE unwrap(WalKV_find_tip(w))[1]
    IN  compact_loop(w, c, SubSeq(Ascending(DOMAIN w), 1, n), tip, k_param, checks)

\* variant: the batch is written but the cursor is not advanced
roll_back_db_stale_seq(w, seq, until) ==
    LET r == stage_roll_back(w, seq, until)
    IN  IF r.ok THEN [ok |-> TRUE, wal |-> r.wal, seq |-> seq]
        ELSE [ok |-> FALSE, wal |-> w, seq |-> seq]

\* variant: the staged batch is never written to the database
roll_back_db_no_write(w, seq, until) ==
    LET r == stage_roll_back(w, seq, until)
    IN  IF r.ok THEN [ok |-> TRUE, wal |-> w, seq |-> r.seq]
        ELSE [ok |-> FALSE, wal |-> w, seq |-> seq]

\* variant: one write per staged entry, the database read after the first
roll_back_db_first_write(w, seq, until) ==
    LET r == stage_roll_back(w, seq, until)
    IN  IF r.ok THEN [ok |-> TRUE, wal |-> Upsert(w, seq + 1, r.wal[seq + 1]), seq |-> seq + 1]
        ELSE [ok |-> FALSE, wal |-> w, seq |-> seq]

\* the outcome of RollDB::roll_back: the batch is written and the cursor
\* moved only when staging succeeded
roll_back_db(w, seq, until) ==
    LET r == stage_roll_back(w, seq, until)
    IN  IF r.ok THEN [ok |-> TRUE, wal |-> r.wal, seq |-> r.seq]
        ELSE [ok |-> FALSE, wal |-> w, seq |-> seq]

\* variant: the cursor is not recovered from the wal family
open_seq_zero(w) == 0

\* the cursor RollDB::open recovers
open_seq(w) == IF last_key(w) = None THEN 0 ELSE unwrap(last_key(w))

\* ------------------------------------------ mempool monitor (mempool.rs)
\* the transaction hashes and the slots the monitor's events carry
TxHash == 1..NTxs
TipSlots == 0..MaxTipSlot

\* the payloads of AddTxs: Vec<Transaction>, each transaction its hash
Payloads == UNION {[1..n -> TxHash] : n \in 0..MaxBatch}

\* the elements of a Vec
Elems(v) == {v[i] : i \in 1..Len(v)}

\* variant: `txs.retain(..)` left out, a tracked hash is inserted again
add_txs_overwrite(m, payload) == [h \in (DOMAIN m) \cup Elems(payload) |-> None]

\* AddTxs on Monitor.txs: `txs.retain(|x| !monitor.txs.contains_key(&x.hash))`
\* then `extend` with (hash, None)
add_txs(m, payload) ==
    LET fresh == SelectSeq(payload, LAMBDA x : x \notin DOMAIN m)
    IN  [h \in (DOMAIN m) \cup Elems(fresh) |-> IF h \in DOMAIN m THEN m[h] ELSE None]

\* NewBlock, first loop: `if block_txs.contains(tx_hash) { *inclusion = Some(*slot) }`
set_inclusion(m, slot, block_txs) ==
    [h \in DOMAIN m |-> IF h \in block_txs THEN Some(slot) ELSE m[h]]

\* `slot - *inclusion_slot` on u64
confirmations(slot, inclusion_slot) == slot_delta(slot, inclusion_slot)

\* the closure of `monitor.txs.retain(..)`: keep an entry without inclusion
\* point, or with at most prune_height confirmations (a wrapped difference
\* is above every prune_height)
keeps(inclusion, slot, ph) ==
    \/ inclusion = None
    \/ LET d == confirmations(slot, unwrap(inclusion))
       IN  ~d.wrapped /\ d.val <= ph

\* the entries on which the closure's subtraction underflows
underflowing(m, slot) ==
    {h \in DOMAIN m : m[h] # None /\ confirmations(slot, unwrap(m[h])).wrapped}

\* m restricted to the hashes of S
Restrict(m, S) == [h \in S |-> m[h]]

\* NewBlock, `retain` run to its end
prune(m, slot, ph) == Restrict(m, {h \in DOMAIN m : keeps(m[h], slot, ph)})

\* variant: the comparison of the rollback loop written with `>=`
reset_inclusion_ge(m, rb_slot) ==
    [h \in DOMAIN m |->
        IF m[h] # None /\ unwrap(m[h]) >= rb_slot THEN None ELSE m[h]]

\* Rollback, the loop: `if *slot > *rb_slot { *inclusion = None }`
reset_inclusion(m, rb_slot) ==
    [h \in DOMAIN m |->
        IF m[h] # None /\ unwrap(m[h]) > rb_slot THEN None ELSE m[h]]

\* ---------------------------------- follow-tip stream (serve/grpc/sync.rs)
\* the ChainPoint a WAL entry names
PointOf(v) == <<v.slot, v.hash>>

\* the points a client can put in FollowTipRequest.intersect
ChainPoints == {<<BlockSlot(h), h>> : h \in BlockHash}

\* the intersect sets of a request
Intersects == {q \in SUBSET ChainPoints : Cardinality(q) <= MaxIntersect}

\* the seqs of the entries of w that name point p
SeqsOf(w, p) == {s \in DOMAIN w : PointOf(w[s]) = p}

\* WalStore::find_tip: the greatest seq and the point its entry names
WalStore_find_tip(w) ==
    IF DOMAIN w = {} THEN None
    ELSE Some(<<Max(DOMAIN w), PointOf(w[Max(DOMAIN w)])>>)

\* WalStore::find_intersect: of the entries naming a candidate, the one of
\* greatest seq
find_intersect(w, candidates) ==
    LET found == UNION {SeqsOf(w, p) : p \in candidates}
    IN  IF found = {} THEN None
        ELSE Some(<<Max(found), PointOf(w[Max(found)])>>)

\* WalStore::assert_point: the seq of the (latest) entry naming p
assert_point(w, p) == IF SeqsOf(w, p) = {} THEN None ELSE Some(Max(SeqsOf(w, p)))

\* WalStream: the seq of the first entry at or after `from`, if appended yet
stream_next(w, from) ==
    IF {s \in DOMAIN w : s >= from} = {} THEN None
    ELSE Some(Min({s \in DOMAIN w : s >= from}))

\* point_to_reset_tip_response
point_to_reset_tip_response(p) == [action |-> Some(<<"Reset", p>>)]

\* wal_log_to_tip_response: Apply and Undo carry the block, Mark gives a
\* FollowTipResponse of which `action` is None
wal_log_to_tip_response(log) ==
    [action |-> IF log.action = "Mark" THEN None
                ELSE Some(<<log.action, PointOf(log)>>)]

\* variant: the comparison of the catch-up loop written with `<=`
caught_up_le(ledger_seq, n) == ledger_seq <= n

\* `ledger_seq >= wal_seq`, the exit of the catch-up loop
caught_up(ledger_seq, n) == ledger_seq >= n

\* ------------------------------- history pages (serve/grpc/sync.rs)
\* the sets of bodies that may be epoch boundary blocks
EpochBoundaries == {e \in SUBSET BlockHash : Cardinality(e) <= MaxEbb}

\* a block hash of other than 32 bytes
BadHash == 0 - 1

\* the BlockRef values a client may send as start_token
BlockRefs ==
    {[index |-> p[1], hash |-> p[2]] : p \in ChainPoints} \cup {[index |-> 0, hash |-> BadHash]}

\* a tonic Status in place of a DumpHistoryResponse
Status(code) == [status |-> code, block |-> << >>, next_token |-> None]

\* u5c_to_chain_point: the point of a BlockRef, unless bytes_to_hash32
\* rejects the hash
u5c_to_chain_point(block_ref) ==
    IF block_ref.hash \in BlockHash THEN Some(<<block_ref.index, block_ref.hash>>) ELSE None

\* the RawBlock of an Apply entry
RawBlock(v) == [slot |-> v.slot, hash |-> v.hash, body |-> BlockBody(v.hash)]

\* probe::block_era(body) as far as dump_history tells eras apart
block_era(body) == IF body.bytes \in epoch_boundary THEN "EpochBoundary" ELSE "Other"

\* raw_to_anychain: the block item of a RawBlock
raw_to_anychain(raw) == [native_bytes |-> raw.body.bytes]

\* raw_to_blockref
raw_to_blockref(raw) == [index |-> raw.slot, hash |-> raw.hash]

\* WalStore::read_block_page: up to len blocks of Apply entries in WAL
\* order, from the oldest entry or after the entry of `from`; a `from`
\* that no entry names is a failure
read_block_page(w, from, len) ==
    LET start == IF from = None THEN Some(0) ELSE assert_point(w, unwrap(from))
    IN  IF start = None THEN None
        ELSE LET keys == Ascending({s \in DOMAIN w : s > unwrap(start) /\ w[s].action = "Apply"})
                 n == IF Len(keys) < len THEN Len(keys) ELSE len
             IN  Some([i \in 1..n |-> RawBlock(w[keys[i]])])

\* `partition_map`, left side: every block of the page but the last
page_items(page) == [i \in 1..(Len(page) - 1) |-> raw_to_anychain(page[i])]

\* `partition_map`, right side: the last block of the page, if any
page_next_token(page) ==
    IF page = << >> THEN None ELSE Some(raw_to_blockref(page[Len(page)]))

\* SyncServiceImpl::dump_history as a function of the WAL and the request
dump_history_response(w, start_token, max_items) ==
    LET from == IF start_token = None THEN Some(None)
                ELSE IF u5c_to_chain_point(unwrap(start_token)) = None THEN None
                ELSE Some(u5c_to_chain_point(unwrap(start_token)))
        len == max_items + 1
    IN  IF from = None THEN Status("invalid")
        ELSE LET read == read_block_page(w, unwrap(from), len)
             IN  IF read = None THEN Status("internal")
                 ELSE LET page == SelectSeq(unwrap(read),
                                      LAMBDA x : block_era(x.body) # "EpochBoundary")
                      IN  [status |-> "Ok",
                           block |-> page_items(page),
                           next_token |-> page_next_token(page)]

\* -------------------------------------------------------------- actions
\* RollDB::open on a fresh directory
RollDBInit ==
    /\ wal = << >>
    /\ wal_seq = 0
    /\ chain = << >>
    /\ blocks = << >>
    /\ res = "Ok"

\* RollDB::open on the existing database (after a close or a crash)
open ==
    /\ wal_seq' = open_seq(wal)
    /\ res' = "Ok"
    /\ UNCHANGED <<wal, chain, blocks>>

\* variant: the block body is left out of the batch
roll_forward_no_body(slot, hash, body) ==
    /\ wal_seq < MaxSeq
    /\ LET r == stage_roll_forward(wal, wal_seq, slot, hash)
       IN  /\ wal' = r.wal
           /\ wal_seq' = r.seq
    /\ res' = "Ok"
    /\ UNCHANGED <<chain, blocks>>

\* RollDB::roll_forward
roll_forward(slot, hash, body) ==
    /\ wal_seq < MaxSeq
    /\ LET r == stage_roll_forward(wal, wal_seq, slot, hash)
       IN  /\ blocks' = Upsert(blocks, hash, body)
           /\ wal' = r.wal
           /\ wal_seq' = r.seq
    /\ res' = "Ok"
    /\ UNCHANGED chain

\* RollDB::roll_back
roll_back(until) ==
    LET r == roll_back_db(wal, wal_seq, until)
    IN  /\ r.seq <= MaxSeq
        /\ wal' = r.wal
        /\ wal_seq' = r.seq
        /\ \/ r.ok /\ res' = "Ok"
           \/ ~r.ok /\ res' \in Error
        /\ UNCHANGED <<chain, blocks>>

\* RollDB::compact in a build with (checks) or without overflow checks
compact_build(k_param, checks) ==
    LET r == compact_db(wal, chain, k_param, checks)
    IN  /\ wal' = r.wal
        /\ chain' = r.chain
        /\ res' = r.res
        /\ UNCHANGED <<wal_seq, blocks>>

\* the builds of the crate: with overflow checks `tip - value.slot()`
\* panics on underflow, without them it wraps
Builds == BOOLEAN

\* RollDB::compact
compact(k_param) == \E checks \in Builds : compact_build(k_param, checks)

\* RollDB::compact that stops early with Error::IO: the db.write of batch
\* n + 1 fails, for an entry the whole run would have moved
compact_stopped(k_param) ==
    /\ \E checks \in Builds :
          LET full == compact_db(wal, chain, k_param, checks)
          IN  \E n \in 0..(Cardinality(DOMAIN wal) - Cardinality(DOMAIN full.wal) - 1) :
                LET part == compact_db_stopped(wal, chain, k_param, checks, n)
                IN  /\ wal' = part.wal
                    /\ chain' = part.chain
    /\ res' = "IO"
    /\ UNCHANGED <<wal_seq, blocks>>

\* the blocks the chain source can deliver next: any block on an empty log,
\* otherwise a block of a later slot than the tip; the hashes of one slot
\* are numbered in the order in which their blocks first arrive
NextBlocks ==
    {h \in BlockHash :
        /\ find_tip = None \/ BlockSlot(h) > unwrap(find_tip)[1]
        /\ h % NForks = 0 \/ (h - 1) \in DOMAIN blocks}

\* ------------------------------------------------ mempool monitor events
\* Stage::new(state, prune_height) with MempoolState::default(): nothing
\* tracked, tip_slot 0
MonitorInit(ph) ==
    /\ tip_slot = 0
    /\ txs = << >>
    /\ prune_height = ph
    /\ propagated = None
    /\ worker = "Ok"
    /\ event = "none"

\* MempoolEvent::AddTxs: the payload is sent downstream, then the untracked
\* hashes are inserted
AddTxs(payload) ==
    /\ worker = "Ok"
    /\ propagated' = Some(payload)
    /\ txs' = add_txs(txs, payload)
    /\ event' = "AddTxs"
    /\ UNCHANGED <<tip_slot, prune_height, worker>>

\* BlockMonitorMessage::NewBlock in a build with (checks) or without
\* overflow checks: with them the closure panics at the first entry whose
\* subtraction underflows, after `retain` visited some of the other entries
\* (a HashMap has no fixed order), and tip_slot is not reached
NewBlock_build(slot, block_txs, checks) ==
    LET marked == set_inclusion(txs, slot, block_txs)
    IN  /\ worker = "Ok"
        /\ IF checks /\ underflowing(marked, slot) # {}
           THEN /\ \E seen \in SUBSET ((DOMAIN marked) \ underflowing(marked, slot)) :
                      txs' = Restrict(marked,
                                 (DOMAIN marked) \ {h \in seen : ~keeps(marked[h], slot, prune_height)})
                /\ worker' = "panic"
                /\ UNCHANGED tip_slot
           ELSE /\ txs' = prune(marked, slot, prune_height)
                /\ tip_slot' = slot
                /\ UNCHANGED worker
        /\ event' = "NewBlock"
        /\ UNCHANGED <<prune_height, propagated>>

\* BlockMonitorMessage::NewBlock
NewBlock(slot, block_txs) == \E checks \in Builds : NewBlock_build(slot, block_txs, checks)

\* BlockMonitorMessage::Rollback
Rollback(rb_slot) ==
    /\ worker = "Ok"
    /\ txs' = reset_inclusion(txs, rb_slot)
    /\ tip_slot' = rb_slot
    /\ event' = "Rollback"
    /\ UNCHANGED <<prune_height, propagated, worker>>

\* ------------------------------------------------ follow-tip stream steps
\* no follow_tip call was made and the ledger has no cursor
StreamInit ==
    /\ ledger_cursor = None
    /\ stream_pc = "idle"
    /\ from_seq = 0
    /\ stream_seq = 0
    /\ point = None
    /\ by_intersect = FALSE
    /\ items = << >>

\* SyncServiceImpl::follow_tip up to the returned stream: an empty intersect
\* starts at the tip, another one at the intersect found; without a start
\* the call ends with Status::internal
follow_tip(request_intersect) ==
    /\ stream_pc \in {"idle", "status"}
    /\ LET found == IF request_intersect = {} THEN WalStore_find_tip(wal)
                    ELSE find_intersect(wal, request_intersect)
       IN  IF found = None
           THEN /\ stream_pc' = "status"
                /\ UNCHANGED <<from_seq, stream_seq, point>>
           ELSE /\ stream_pc' = "reset"
                /\ from_seq' = unwrap(found)[1]
                /\ stream_seq' = unwrap(found)[1]
                /\ point' = Some(unwrap(found)[2])
    /\ by_intersect' = (request_intersect # {})
    /\ items' = << >>
    /\ UNCHANGED ledger_cursor

\* the stream's first item: `once(.. point_to_reset_tip_response(point))`
stream_reset ==
    /\ stream_pc = "reset"
    /\ items' = <<[seq |-> from_seq, response |-> point_to_reset_tip_response(unwrap(point))]>>
    /\ stream_pc' = "skip"
    /\ UNCHANGED <<ledger_cursor, from_seq, stream_seq, point, by_intersect>>

\* variant: `.skip(1)` left out
stream_skip_none ==
    /\ stream_pc = "skip"
    /\ stream_pc' = "forward"
    /\ UNCHANGED <<ledger_cursor, from_seq, stream_seq, point, by_intersect, items>>

\* `.skip(1)`: the first entry the WalStream yields is dropped
stream_skip ==
    /\ stream_pc = "skip"
    /\ stream_next(wal, stream_seq) # None
    /\ stream_seq' = unwrap(stream_next(wal, stream_seq)) + 1
    /\ stream_pc' = "forward"
    /\ UNCHANGED <<ledger_cursor, from_seq, point, by_intersect, items>>

\* `.then(..)` on the next entry, from one poll of the ledger that ends the
\* catch-up loop to the item; a poll that does not end the loop sleeps and
\* changes nothing; assert_point(..).unwrap() panics on a cursor that no
\* WAL entry names
stream_forward ==
    /\ stream_pc = "forward"
    /\ stream_next(wal, stream_seq) # None
    /\ ledger_cursor # None
    /\ LET n == unwrap(stream_next(wal, stream_seq))
           ledger_seq == assert_point(wal, unwrap(ledger_cursor))
       IN  IF ledger_seq = None
           THEN /\ stream_pc' = "panic"
                /\ UNCHANGED <<stream_seq, items>>
           ELSE /\ caught_up(unwrap(ledger_seq), n)
                /\ items' = Append(items, [seq |-> n, response |-> wal_log_to_tip_response(wal[n])])
                /\ stream_seq' = n + 1
                /\ UNCHANGED stream_pc
    /\ UNCHANGED <<ledger_cursor, from_seq, point, by_intersect>>

\* the ledger (an external store) moves its cursor to the point of a WAL entry
ledger_moves(s) ==
    /\ s \in DOMAIN wal
    /\ ledger_cursor # Some(PointOf(wal[s]))
    /\ ledger_cursor' = Some(PointOf(wal[s]))
    /\ UNCHANGED <<stream_pc, from_seq, stream_seq, point, by_intersect, items>>

\* ------------------------------------------------------- history pages
\* no dump_history call was made; the bodies of e are epoch boundary blocks
DumpInit(e) ==
    /\ epoch_boundary = e
    /\ response = Status("none")
    /\ paging = "idle"
    /\ dumped = << >>

\* SyncServiceImpl::dump_history, and what the client holds after it: a
\* request without start_token begins a paging, one whose start_token is
\* the next_token of the response before continues it ("open" until a
\* response comes without next_token, then "end"); a rejected request or
\* another start_token leaves the paging ("status", "stray")
dump_history(start_token, max_items) ==
    LET r == dump_history_response(wal, start_token, max_items)
        continues == /\ paging = "open"
                     /\ start_token # None
                     /\ start_token = response.next_token
    IN  /\ response' = r
        /\ IF r.status # "Ok"
           THEN paging' = "status" /\ dumped' = << >>
           ELSE IF start_token = None \/ continues
           THEN /\ paging' = IF r.next_token = None THEN "end" ELSE "open"
                /\ dumped' = (IF start_token = None THEN << >> ELSE dumped) \o r.block
           ELSE paging' = "stray" /\ dumped' = << >>
        /\ UNCHANGED epoch_boundary

\* ------------------------------------------------------- specifications
\* the database alone: no mempool event, no follow_tip call
Init ==
    /\ RollDBInit
    /\ MonitorInit(0)
    /\ StreamInit
    /\ DumpInit({})

Next ==
    \/ open /\ UNCHANGED <<mempool_vars, follow_vars, dump_vars>>
    \/ /\ \E h \in NextBlocks : roll_forward(BlockSlot(h), h, BlockBody(h))
       /\ UNCHANGED <<mempool_vars, follow_vars, dump_vars>>
    \/ (\E until \in Slots : roll_back(until)) /\ UNCHANGED <<mempool_vars, follow_vars, dump_vars>>
    \/ (\E k \in Ks : compact(k)) /\ UNCHANGED <<mempool_vars, follow_vars, dump_vars>>
    \/ (\E k \in Ks : compact_stopped(k)) /\ UNCHANGED <<mempool_vars, follow_vars, dump_vars>>

Spec == Init /\ [][Next]_vars

\* the mempool stage alone, for every prune_height
MempoolInit ==
    /\ RollDBInit
    /\ \E ph \in 0..MaxPrune : MonitorInit(ph)
    /\ StreamInit
    /\ DumpInit({})

MempoolNext ==
    \/ (\E payload \in Payloads : AddTxs(payload)) /\ UNCHANGED <<rolldb_vars, follow_vars, dump_vars>>
    \/ /\ \E slot \in TipSlots : \E block_txs \in SUBSET TxHash : NewBlock(slot, block_txs)
       /\ UNCHANGED <<rolldb_vars, follow_vars, dump_vars>>
    \/ (\E rb_slot \in TipSlots : Rollback(rb_slot)) /\ UNCHANGED <<rolldb_vars, follow_vars, dump_vars>>

MempoolSpec == MempoolInit /\ [][MempoolNext]_vars

\* one follow_tip stream next to the writer of the WAL and the ledger
FollowNext ==
    \/ /\ wal_seq < MaxFollowSeq
       /\ \E h \in NextBlocks : roll_forward(BlockSlot(h), h, BlockBody(h))
       /\ UNCHANGED <<mempool_vars, follow_vars, dump_vars>>
    \/ /\ \E until \in Slots : roll_back(until)
       /\ wal_seq' <= MaxFollowSeq
       /\ UNCHANGED <<mempool_vars, follow_vars, dump_vars>>
    \/ (\E s \in 1..MaxFollowSeq : ledger_moves(s)) /\ UNCHANGED <<rolldb_vars, mempool_vars, dump_vars>>
    \/ (\E q \in Intersects : follow_tip(q)) /\ UNCHANGED <<rolldb_vars, mempool_vars, dump_vars>>
    \/ stream_reset /\ UNCHANGED <<rolldb_vars, mempool_vars, dump_vars>>
    \/ stream_skip /\ UNCHANGED <<rolldb_vars, mempool_vars, dump_vars>>
    \/ stream_forward /\ UNCHANGED <<rolldb_vars, mempool_vars, dump_vars>>

FollowSpec == Init /\ [][FollowNext]_vars

\* a client paging through the history of a WAL that was written before
\* the first page is asked for, for every choice of epoch boundary blocks
DumpSpecInit ==
    /\ RollDBInit
    /\ MonitorInit(0)
    /\ StreamInit
    /\ \E e \in EpochBoundaries : DumpInit(e)

DumpNext ==
    \/ /\ paging = "idle"
       /\ wal_seq < MaxDumpSeq
       /\ \E h \in NextBlocks : roll_forward(BlockSlot(h), h, BlockBody(h))
       /\ UNCHANGED <<mempool_vars, follow_vars, dump_vars>>
    \/ /\ paging = "idle"
       /\ \E until \in Slots : roll_back(until)
       /\ wal_seq' <= MaxDumpSeq
       /\ UNCHANGED <<mempool_vars, follow_vars, dump_vars>>
    \/ /\ \E start_token \in {None} \cup {Some(b) : b \in BlockRefs} :
             \E max_items \in 0..MaxItems : dump_history(start_token, max_items)
       /\ UNCHANGED <<rolldb_vars, mempool_vars, follow_vars>>

DumpSpec == DumpSpecInit /\ [][DumpNext]_vars

TypeOK ==
    /\ DOMAIN wal \subseteq 1..MaxSeq
    /\ \A s \in DOMAIN wal : wal[s].action \in WalAction /\ wal[s].hash \in BlockHash
    /\ wal_seq \in 0..MaxSeq
    /\ DOMAIN chain \subseteq Slots
    /\ DOMAIN blocks \subseteq BlockHash

\* ---------------------------------------------------------- properties
IsPrefix(a, b) == Len(a) <= Len(b) /\ \A i \in 1..Len(a) : a[i] = b[i]

\* the values of w in key order
Entries(w) ==
    LET keys == Ascending(DOMAIN w)
    IN  [i \in 1..Len(keys) |-> w[keys[i]]]

\* vs is a run of Apply entries with strictly increasing slots
LinearApplies(vs) ==
    /\ \A i \in 1..Len(vs) : vs[i].action = "Apply"
    /\ \A i, j \in 1..Len(vs) : i < j => vs[i].slot < vs[j].slot

\* the database holds a log built only by roll_forward, slots increasing,
\* and nothing was compacted
LinearLog ==
    /\ chain = << >>
    /\ DOMAIN wal = 1..wal_seq
    /\ LinearApplies(Entries(wal))

\* the chain index holding the blocks of vs with tip - slot > k
ChainOf(vs, tip, k) ==
    LET moved == {i \in 1..Len(vs) : tip - vs[i].slot > k}
    IN  [s \in {vs[i].slot : i \in moved} |->
            vs[CHOOSE i \in moved : vs[i].slot = s].hash]

\* the entries of vs with tip - slot <= k, in order
KeptOf(vs, tip, k) == SelectSeq(vs, LAMBDA v : tip - v.slot <= k)

\* C1: on a log built only by roll_forward calls with strictly increasing
\* slots, compact(k) leaves in the chain index exactly the blocks with
\* tip_slot - slot > k, in ascending slot order, and in the WAL exactly the
\* other blocks, in order.
C1_CompactLinear ==
    [][\A k \in Ks :
        (wal_seq > 0 /\ wal_seq' = wal_seq /\ LinearLog /\ compact(k)) =>
            LET vs == Entries(wal)
                tip == vs[Len(vs)].slot
            IN  /\ res' = "Ok"
                /\ chain' = ChainOf(vs, tip, k)
                /\ crawl_chain' =
                     [i \in 1..Len(vs) - Len(KeptOf(vs, tip, k)) |->
                        <<vs[i].slot, vs[i].hash>>]
                /\ crawl_wal' = KeptOf(vs, tip, k)]_vars

\* C1 witness: a linear log of which compact moved the oldest blocks into
\* the chain index and kept the newest two
C1_Witness ==
    /\ res = "Ok"
    /\ Cardinality(DOMAIN chain) >= 1
    /\ Cardinality(DOMAIN wal) >= 2
    /\ LinearApplies(Entries(wal))
    /\ wal_seq = Cardinality(DOMAIN chain) + Cardinality(DOMAIN wal)
    /\ \A s \in DOMAIN chain : s < Entries(wal)[1].slot

\* the Undo entries of the blocks of vs with slot > t, newest first
UndosOf(vs, t) ==
    LET later == SelectSeq(vs, LAMBDA v : v.slot > t)
    IN  [i \in 1..Len(later) |->
            Value("Undo", later[Len(later) + 1 - i].slot, later[Len(later) + 1 - i].hash)]

\* the hash of the block of vs at slot t
HashAt(vs, t) == vs[CHOOSE i \in 1..Len(vs) : vs[i].slot = t].hash

\* the log after roll_back(t) on the linear log vs
RolledBack(vs, t) == vs \o UndosOf(vs, t) \o <<Value("Mark", t, HashAt(vs, t))>>

\* the number of Apply entries of vs
NApplies(vs) == Cardinality({i \in 1..Len(vs) : vs[i].action = "Apply"})

\* the database holds increasing Apply entries followed by a rollback to an
\* applied slot, and nothing was compacted
RolledBackLog ==
    /\ chain = << >>
    /\ wal_seq >= 2
    /\ DOMAIN wal = 1..wal_seq
    /\ wal[wal_seq].action = "Mark"
    /\ LET all == Entries(wal)
           vs == SubSeq(all, 1, NApplies(all))
           t == wal[wal_seq].slot
       IN  /\ LinearApplies(vs)
           /\ \E i \in 1..Len(vs) : vs[i].slot = t
           /\ all = RolledBack(vs, t)

\* C2: increasing roll_forward calls, then roll_back(t) to an applied slot
\* still in the WAL, then compact(k): the chain index holds exactly the
\* applied blocks with t - slot > k; the WAL holds the other Apply entries
\* in ascending order, then one Undo per applied block with slot > t in
\* descending slot order, then the single Mark at slot t.
C2_CompactWithRollback ==
    [][/\ \A t \in Slots :
            (wal' # wal /\ res' = "Ok" /\ LinearLog /\ roll_back(t)) =>
                /\ DOMAIN wal' = 1..wal_seq'
                /\ crawl_wal' = RolledBack(Entries(wal), t)
                /\ chain' = chain
       /\ \A k \in Ks :
            (wal_seq' = wal_seq /\ RolledBackLog /\ compact(k)) =>
                LET all == Entries(wal)
                    vs == SubSeq(all, 1, NApplies(all))
                    t == wal[wal_seq].slot
                IN  /\ res' = "Ok"
                    /\ chain' = ChainOf(vs, t, k)
                    /\ crawl_wal' =
                         KeptOf(vs, t, k) \o UndosOf(vs, t)
                            \o <<Value("Mark", t, HashAt(vs, t))>>]_vars

\* C2 witness: after the rollback, compact moved a block and left Apply
\* entries, Undo entries and the closing Mark in the WAL
C2_Witness ==
    /\ res = "Ok"
    /\ chain # << >>
    /\ wal_seq = Cardinality(DOMAIN chain) + Cardinality(DOMAIN wal)
    /\ LET vs == Entries(wal)
       IN  /\ Len(vs) >= 4
           /\ vs[1].action = "Apply"
           /\ vs[Len(vs)].action = "Mark"
           /\ vs[Len(vs) - 1].action = "Undo"
           /\ Cardinality({i \in 1..Len(vs) : vs[i].action = "Mark"}) = 1
           /\ \A s \in DOMAIN chain : s < vs[Len(vs)].slot

\* C3: after a successful rollback to slot p, the last WAL entry is a Mark
\* naming p (with the hash of a block of slot p) and find_tip returns that
\* point, so no block rolled back past is the tip.
C3_TipAfterRollback ==
    [][\A p \in Slots :
        (res' = "Ok" /\ chain' = chain /\ blocks' = blocks /\ roll_back(p)) =>
            /\ wal' # << >>
            /\ LET last == wal'[Max(DOMAIN wal')]
               IN  /\ last.action = "Mark"
                   /\ last.slot = p
                   /\ BlockSlot(last.hash) = p
                   /\ find_tip' = Some(<<p, last.hash>>)
                   /\ find_tip # None /\ unwrap(find_tip)[1] > p
                        => find_tip' # find_tip]_vars

\* C3 witness: a rollback that undid two applied blocks, its Mark the tip
C3_Witness ==
    /\ res = "Ok"
    /\ Cardinality(DOMAIN wal) >= 5
    /\ wal[wal_seq].action = "Mark"
    /\ wal[wal_seq - 1].action = "Undo"
    /\ wal[wal_seq - 2].action = "Undo"
    /\ wal[wal_seq - 2].slot > wal[wal_seq].slot
    /\ find_tip = Some(<<wal[wal_seq].slot, wal[wal_seq].hash>>)

\* C4: after roll_forward(slot, hash, body), get_block(hash) is that body
\* and find_tip is (slot, hash); every body stored stays retrievable,
\* unchanged, after every later operation.
C4_BlockRetrievable ==
    [][/\ \A h \in BlockHash :
            (wal_seq' = wal_seq + 1 /\ roll_forward(BlockSlot(h), h, BlockBody(h))) =>
                /\ get_block(h)' = Some(BlockBody(h))
                /\ find_tip' = Some(<<BlockSlot(h), h>>)
       /\ \A h \in DOMAIN blocks :
            h \in DOMAIN blocks' /\ blocks'[h] = blocks[h]]_vars

\* C4 witness: after a rollback and a compaction, the body of a compacted
\* block and of an undone block are both still returned
C4_Witness ==
    /\ \E s \in DOMAIN chain : get_block(chain[s]) = Some(BlockBody(chain[s]))
    /\ \E s \in DOMAIN wal :
          /\ wal[s].action = "Undo"
          /\ get_block(wal[s].hash) = Some(BlockBody(wal[s].hash))

\* C5: the seqs present in the WAL form a gap-free interval; an appended
\* entry gets a seq above every seq assigned before (the cursor never
\* decreases, also across open, and bounds every key); entries are never
\* overwritten; and only compaction moves the lower end, which starts at 1.
C5_SeqsContiguous ==
    /\ [](/\ DOMAIN wal # {} => DOMAIN wal = Min(DOMAIN wal)..Max(DOMAIN wal)
          /\ DOMAIN wal \subseteq 1..wal_seq
          /\ DOMAIN wal = {} => wal_seq = 0)
    /\ [][/\ wal_seq' >= wal_seq
          /\ (DOMAIN wal') \ (DOMAIN wal) \subseteq (wal_seq + 1)..wal_seq'
          /\ \A s \in (DOMAIN wal) \cap (DOMAIN wal') : wal'[s] = wal[s]
          /\ \/ DOMAIN wal \subseteq DOMAIN wal'
             \/ res' # "IO" /\ \E k \in Ks : compact(k)
             \/ res' = "IO" /\ \E k \in Ks : compact_stopped(k)
          /\ (DOMAIN wal = {} /\ DOMAIN wal' # {}) => Min(DOMAIN wal') = 1]_vars

\* C5 witness: entries appended after a compaction moved the lower end
C5_Witness ==
    /\ DOMAIN wal # {}
    /\ Min(DOMAIN wal) > 1
    /\ wal[wal_seq].action = "Apply"
    /\ \E s \in DOMAIN wal : wal[s].action = "Mark" /\ s < wal_seq

\* the slot compact takes as the tip
TipSlot == IF find_tip = None THEN 0 ELSE unwrap(find_tip)[1]

\* C6: compact(k) deletes a WAL entry at slot s only if tip_slot - s > k;
\* every entry with tip_slot - s <= k is still in the WAL afterwards.
C6_HorizonRespected ==
    [][\A k \in Ks :
        (wal_seq' = wal_seq /\ compact(k)) =>
            \A s \in DOMAIN wal :
                TipSlot - wal[s].slot <= k
                    => (s \in DOMAIN wal' /\ wal'[s] = wal[s])]_vars

\* C7: from every database state, a second compact(k) right after
\* compact(k) changes neither the WAL nor the chain index.
C7_CompactIdempotent ==
    \A k \in Ks : \A checks \in Builds :
        LET once == compact_db(wal, chain, k, checks)
            again == compact_db(once.wal, once.chain, k, checks)
        IN  again.wal = once.wal /\ again.chain = once.chain

\* C7 witness: a log with Undo and Mark entries of which compact(0) moves
\* entries, after an earlier compaction
C7_Witness ==
    /\ Cardinality(DOMAIN chain) >= 1
    /\ compact_db(wal, chain, 0, TRUE).wal # wal
    /\ \E s \in DOMAIN wal : wal[s].action = "Undo"
    /\ \E s \in DOMAIN wal : wal[s].action = "Mark" /\ s < wal_seq

\* the WAL entries compact(k) moves out of the WAL from the current state
Moved(k, checks) ==
    LET r == compact_db(wal, chain, k, checks)
        gone == Ascending((DOMAIN wal) \ (DOMAIN r.wal))
    IN  [i \in 1..Len(gone) |-> <<gone[i], wal[gone[i]]>>]

\* C8: for k' >= k, the entries compact(k') moves are a prefix of the
\* entries compact(k) moves from the same state.
C8_MovedPrefix ==
    \A checks \in Builds : \A k \in Ks : \A k2 \in Ks :
        k2 > k => IsPrefix(Moved(k2, checks), Moved(k, checks))

\* C8 witness: a log with Undo entries of which the larger k moves some
\* entries and the smaller k strictly more
C8_Witness ==
    /\ \E s \in DOMAIN wal : wal[s].action = "Undo"
    /\ \E k \in Ks : \E k2 \in Ks :
          /\ k2 > k
          /\ Len(Moved(k2, TRUE)) >= 1
          /\ Len(Moved(k, TRUE)) > Len(Moved(k2, TRUE))

\* C9: the chain index never maps a slot to the hash of a block that was
\* undone (an Undo of it is in the WAL and no later Apply re-applied it).
C9_ChainHasNoUndone ==
    \A s \in DOMAIN chain :
        ~ \E u \in DOMAIN wal :
            /\ wal[u] = Value("Undo", s, chain[s])
            /\ ~ \E a \in DOMAIN wal : a > u /\ wal[a] = Value("Apply", s, chain[s])

\* C10: a rollback to a slot no WAL entry names fails with
\* PointNotReachable and changes neither the WAL, the chain index nor the
\* sequence cursor.
C10_RollbackUnreachable ==
    [][\A until \in Slots :
        (roll_back(until) /\ PointKeys(wal, until) = {}) =>
            /\ res' = "PointNotReachable"
            /\ UNCHANGED <<wal, chain, wal_seq>>]_vars

\* the Undo at position i of vs answers an Apply of the same block that no
\* Undo between them already cancelled
Answers(vs, i) ==
    \E a \in 1..(i - 1) :
        /\ vs[a] = Value("Apply", vs[i].slot, vs[i].hash)
        /\ \A u \in (a + 1)..(i - 1) :
              vs[u] # Value("Undo", vs[i].slot, vs[i].hash)

\* C11: the WAL is causally consistent after every operation: every
\* Undo(b) is preceded by an Apply(b) of the same (slot, hash) that no
\* earlier Undo cancelled, also in the log a rollback to any slot leaves
\* behind, so a rollback after a rollback gives no second Undo for a block
\* already undone (stated on logs of which nothing was compacted).
C11_CausallyConsistent ==
    DOMAIN wal = 1..wal_seq =>
        /\ \A i \in DOMAIN wal :
              wal[i].action = "Undo" => Answers(Entries(wal), i)
        /\ \A until \in Slots :
              LET r == roll_back_db(wal, wal_seq, until)
              IN  \A i \in DOMAIN r.wal :
                    r.wal[i].action = "Undo" => Answers(Entries(r.wal), i)

\* C12: in every state a reader can observe, the Undo entries of a
\* rollback are in the WAL together with its Mark: every Undo entry is
\* directly followed by another Undo or by the closing Mark.
C12_RollbackAtomic ==
    \A s \in DOMAIN wal :
        wal[s].action = "Undo" =>
            /\ s + 1 \in DOMAIN wal
            /\ wal[s + 1].action \in {"Undo", "Mark"}

\* C12 witness: a rollback of two blocks is visible, both Undo entries and
\* the Mark, after entries of an earlier rollback
C12_Witness ==
    \E s \in DOMAIN wal :
        /\ s + 2 \in DOMAIN wal
        /\ wal[s].action = "Undo"
        /\ wal[s + 1].action = "Undo"
        /\ wal[s + 2].action = "Mark"
        /\ \E m \in DOMAIN wal : m < s /\ wal[m].action = "Mark"

\* the chain index after the entries vs were replayed onto c in order
RECURSIVE Replay(_, _)
Replay(c, vs) ==
    IF vs = <<>> THEN c
    ELSE Replay(IF Head(vs).action = "Undo" THEN Without(c, Head(vs).slot)
                ELSE Upsert(c, Head(vs).slot, Head(vs).hash),
                Tail(vs))

\* C20: compaction can be interrupted and resumed: from every state, when
\* compact(k) stops after n of the entries it would move, the entries gone
\* from the WAL are the n oldest, the others are untouched, the chain index
\* holds the effects of the n entries and of no entry still in the WAL,
\* and compact(k) run again ends in the WAL and chain index of the
\* uninterrupted compact(k).
C20_CompactResumable ==
    [](\A k \in Ks : \A checks \in Builds :
        LET full == compact_db(wal, chain, k, checks)
            keys == Ascending(DOMAIN wal)
        IN  \A n \in 0..(Len(keys) - Cardinality(DOMAIN full.wal) - 1) :
                LET part == compact_db_stopped(wal, chain, k, checks, n)
                    again == compact_db(part.wal, part.chain, k, checks)
                IN  /\ part.wal = [s \in {keys[i] : i \in (n + 1)..Len(keys)} |-> wal[s]]
                    /\ part.chain = Replay(chain, [i \in 1..n |-> wal[keys[i]]])
                    /\ again.wal = full.wal
                    /\ again.chain = full.chain
                    /\ again.res = full.res)

\* C20 witness: a compaction stopped after it moved an Apply and before
\* the Undo and Mark entries the whole run would have moved too
C20_Witness ==
    /\ res = "IO"
    /\ chain # << >>
    /\ DOMAIN wal # {}
    /\ Min(DOMAIN wal) > 1
    /\ \E s \in DOMAIN wal : wal[s].action = "Undo" /\ s \notin DOMAIN compact_db(wal, chain, 0, FALSE).wal
    /\ compact_db(wal, chain, 0, TRUE).res = "Ok"

\* C13: NewBlock(slot, block_txs) sets the inclusion slot only of tracked
\* transactions without one: a transaction already included at s keeps
\* Some(s) when a later NewBlock lists its hash again.
C13_InclusionSetOnce ==
    [][\A slot \in TipSlots : \A block_txs \in SUBSET TxHash :
        NewBlock(slot, block_txs) =>
            \A h \in (DOMAIN txs) \cap (DOMAIN txs') :
                txs'[h] = IF txs[h] = None /\ h \in block_txs THEN Some(slot) ELSE txs[h]]_vars

\* C14: NewBlock(slot, _) removes a tracked transaction if and only if its
\* inclusion (as the block leaves it) is Some(s) with slot - s >
\* prune_height; no event removes a transaction without inclusion point.
C14_PruneAfterConfirmations ==
    [][/\ \A slot \in TipSlots : \A block_txs \in SUBSET TxHash :
            NewBlock(slot, block_txs) =>
                \A h \in DOMAIN txs :
                    LET inclusion == set_inclusion(txs, slot, block_txs)[h]
                    IN  h \notin DOMAIN txs' <=>
                            (inclusion # None /\ slot - unwrap(inclusion) > prune_height)
       /\ \A h \in DOMAIN txs :
            (txs[h] = None /\ event' # "NewBlock") => h \in DOMAIN txs']_vars

\* C15: Rollback(rb_slot) resets to None the inclusion of exactly the
\* tracked transactions with Some(s), s > rb_slot, leaves every other entry
\* as it is, removes no transaction, and sets tip_slot to rb_slot.
C15_RollbackResets ==
    [][event' = "Rollback" =>
        \A rb_slot \in TipSlots :
            Rollback(rb_slot) =>
                /\ DOMAIN txs' = DOMAIN txs
                /\ \A h \in DOMAIN txs :
                      IF txs[h] # None /\ unwrap(txs[h]) > rb_slot
                      THEN txs'[h] = None
                      ELSE txs'[h] = txs[h]
                /\ tip_slot' = rb_slot]_vars

\* C15 witness: after a Rollback, a transaction that lost its inclusion
\* point next to one that kept an inclusion slot at or below the new tip
C15_Witness ==
    /\ event = "Rollback"
    /\ \E h \in DOMAIN txs : txs[h] = None
    /\ \E h \in DOMAIN txs : txs[h] # None /\ unwrap(txs[h]) <= tip_slot
    /\ tip_slot < MaxTipSlot

\* C16: AddTxs(txs) sends all of txs downstream and inserts (hash, None)
\* only for hashes not tracked yet: the inclusion of a tracked hash stays
\* as it is, and tip_slot does not change.
C16_AddTxsKeepsTracked ==
    [][event' = "AddTxs" =>
        /\ propagated' # None
        /\ LET payload == unwrap(propagated')
           IN  AddTxs(payload) =>
                 /\ DOMAIN txs' = (DOMAIN txs) \cup Elems(payload)
                 /\ \A h \in DOMAIN txs : txs'[h] = txs[h]
                 /\ \A h \in (DOMAIN txs') \ (DOMAIN txs) : txs'[h] = None
                 /\ tip_slot' = tip_slot]_vars

\* C16 witness: an AddTxs payload of a hash tracked with an inclusion slot
\* and a hash that was new, both sent downstream
C16_Witness ==
    /\ event = "AddTxs"
    /\ propagated # None
    /\ \E h \in Elems(unwrap(propagated)) : txs[h] # None
    /\ \E h \in Elems(unwrap(propagated)) : txs[h] = None
    /\ tip_slot > 0

\* the seq the ledger cursor maps to, 0 without a cursor or without an
\* entry naming it
LedgerSeq ==
    IF ledger_cursor = None THEN 0
    ELSE IF assert_point(wal, unwrap(ledger_cursor)) = None THEN 0
    ELSE unwrap(assert_point(wal, unwrap(ledger_cursor)))

\* C17: the stream yields the item of WAL entry n only at a moment at
\* which the ledger has a cursor and the cursor maps to a seq >= n (stated
\* for every forwarded item, the Reset item apart).
C17_LedgerCaughtUp ==
    [][(Len(items) >= 1 /\ Len(items') = Len(items) + 1) =>
        LET n == items'[Len(items')].seq
        IN  /\ n \in DOMAIN wal
            /\ ledger_cursor # None
            /\ LedgerSeq >= n]_vars

\* C17 witness: the stream forwarded an entry and now waits with the next
\* entry, which is in the WAL, for a ledger whose cursor maps to a lower seq
C17_Witness ==
    /\ stream_pc = "forward"
    /\ Len(items) >= 2
    /\ stream_next(wal, stream_seq) # None
    /\ LedgerSeq < unwrap(stream_next(wal, stream_seq))
    /\ LedgerSeq >= items[Len(items)].seq

\* the Apply and Undo entries of the WAL with seq in lo..hi, each with its seq
BlockEntries(lo, hi) ==
    LET keys == Ascending({n \in DOMAIN wal : lo <= n /\ n <= hi /\ wal[n].action # "Mark"})
    IN  [i \in 1..Len(keys) |-> [seq |-> keys[i], value |-> wal[keys[i]]]]

\* the items of the stream that carry an event, the Reset item apart
BlockItems == SelectSeq(SubSeq(items, 2, Len(items)), LAMBDA it : it.response.action # None)

\* C18: a follow_tip call with an intersect that matches takes the point of
\* a candidate, at the seq of the WAL entry naming it; the stream's first
\* item is Reset(that point), the entry of the intersect is not forwarded,
\* and the events after the Reset are the entries with a seq above the
\* intersect's, in ascending seq order, none left out.
C18_ResetThenForward ==
    /\ [][(stream_pc' = "reset" /\ stream_pc # "reset") =>
            \A q \in Intersects :
                (q # {} /\ follow_tip(q)) =>
                    /\ unwrap(point') \in q
                    /\ from_seq' \in SeqsOf(wal, unwrap(point'))
                    /\ \A p \in q : \A n \in SeqsOf(wal, p) : n <= from_seq']_vars
    /\ []((by_intersect /\ Len(items) >= 1) =>
            /\ items[1].response = [action |-> Some(<<"Reset", unwrap(point)>>)]
            /\ PointOf(wal[from_seq]) = unwrap(point)
            /\ \A i \in 2..Len(items) : items[i].seq > from_seq
            /\ LET passed == BlockEntries(from_seq + 1, stream_seq - 1)
               IN  /\ Len(BlockItems) = Len(passed)
                   /\ \A i \in 1..Len(passed) :
                         /\ BlockItems[i].seq = passed[i].seq
                         /\ BlockItems[i].response.action =
                               Some(<<passed[i].value.action, PointOf(passed[i].value)>>))

\* C18 witness: a stream that started at an intersect below the tip and
\* forwarded an Apply and an Undo appended after it
C18_Witness ==
    /\ by_intersect
    /\ Len(BlockItems) >= 2
    /\ \E i \in 1..Len(BlockItems) : BlockItems[i].response.action[1][1] = "Apply"
    /\ \E i \in 1..Len(BlockItems) : BlockItems[i].response.action[1][1] = "Undo"
    /\ items[2].seq = from_seq + 1

\* C19: the stream yields no item for a Mark entry: after the Reset item
\* every item carries an Apply or an Undo, none is an empty response.
C19_NoItemForMark ==
    \A i \in 2..Len(items) :
        /\ items[i].response.action # None
        /\ wal[items[i].seq].action # "Mark"


\* C21: in every database state reachable by roll_forward, roll_back and
\* compact, `tip - value.slot()` underflows for no WAL entry that compact
\* examines: for every k, the run of compact from the state meets no entry
\* with a slot above the tip slot of find_tip (a build with overflow checks
\* would panic at such an entry).
C21_CompactNoUnderflow ==
    \A k \in Ks : compact_db(wal, chain, k, TRUE).res # "panic"


\* C22: after any sequence of AddTxs, NewBlock and Rollback events every
\* tracked transaction with inclusion Some(s) has s <= tip_slot, and the
\* next NewBlock(slot, block_txs), whatever its slot (one below tip_slot
\* included), evaluates `slot - inclusion_slot` without underflow for
\* every entry it prunes over.
C22_PruneNoUnderflow ==
    /\ \A h \in DOMAIN txs : txs[h] # None => unwrap(txs[h]) <= tip_slot
    /\ worker = "Ok" =>
          \A slot \in TipSlots : \A block_txs \in SUBSET TxHash :
              underflowing(set_inclusion(txs, slot, block_txs), slot) = {}


\* the blocks of the Apply entries of w, in WAL order, as block items
HistoryBlocks(w) ==
    LET keys == Ascending({s \in DOMAIN w : w[s].action = "Apply"})
    IN  [i \in 1..Len(keys) |-> raw_to_anychain(RawBlock(w[keys[i]]))]

\* C23: a paging of dump_history that starts without start_token and
\* passes each response's next_token as the next start_token has, once a
\* response comes without next_token, returned every Apply block of the
\* WAL exactly once as a block item, in WAL order: the block named by a
\* next_token is neither lost nor repeated, the final page included.
C23_PagingComplete ==
    paging = "end" => dumped = HistoryBlocks(wal)

====
